---- MODULE Spec2Model ----
(***************************************************************************)
(* Model of the VelocyStream chunk framing layer (src/src/lib.rs).         *)
(*                                                                         *)
(* Fixed-width integers are kept at their width.  A u32 is a pair and a    *)
(* u64 a 4-tuple of 16-bit limbs, least significant limb first, so that    *)
(* every value of the type (up to 2^32-1, 2^64-1) is representable and     *)
(* shifts drop the bits that leave the word.  A byte is 0..255, a byte     *)
(* buffer is a sequence of bytes.  An Option is a sequence of length <= 1. *)
(***************************************************************************)
EXTENDS Integers, Sequences, FiniteSets

----------------------------------------------------------------------------
(* Bounds of the model.                                                    *)

\* longest payload handed to from_data / carried by a received buffer
MaxData == 2
\* number of logical messages the sender frames in one run
MaxMessages == 2
\* largest caller-generated message identifier (1..MaxMsgId)
MaxMsgId == 2
\* largest chunk count tried on encode_chunk_x
MaxTotal == 12
\* longest logical message handed to split
MaxPayload == 3
\* largest max_chunk_payload handed to split (0 is tried as well)
MaxChunkPayload == 2

----------------------------------------------------------------------------
(* Fixed-width integers.                                                   *)

\* `n as u32`
U32(n) == <<n % 65536, (n \div 65536) % 65536>>

\* `n as u64`
U64(n) == <<n % 65536, (n \div 65536) % 65536, 0, 0>>

\* u32 `x << 1`: the top bit leaves the word
Shl1(x) == <<(x[1] * 2) % 65536, (x[2] * 2 + x[1] \div 32768) % 65536>>

\* u32 `x >> 1`
Shr1(x) == <<x[1] \div 2 + (x[2] % 2) * 32768, x[2] \div 2>>

\* u32 `x + 1` (the operand in encode_chunk_x is even, so there is no carry out)
Add1(x) ==
    IF x[1] < 65535 THEN <<x[1] + 1, x[2]>> ELSE <<0, (x[2] + 1) % 65536>>

\* u32 `x & 0x01`
And1(x) == x[1] % 2

\* the value of a u32 below 2^31 as a number
ToNat(x) == x[1] + 65536 * x[2]

\* variant of to_le_bytes: most significant byte first
to_le_bytes_be(x) ==
    [k \in 1..(2 * Len(x)) |->
        IF k % 2 = 1 THEN x[Len(x) + 1 - (k + 1) \div 2] \div 256
                     ELSE x[Len(x) + 1 - k \div 2] % 256]

\* uN::to_le_bytes: least significant byte first
to_le_bytes(x) ==
    [k \in 1..(2 * Len(x)) |->
        IF k % 2 = 1 THEN x[(k + 1) \div 2] % 256
                     ELSE x[k \div 2] \div 256]

\* uN::from_le_bytes
from_le_bytes(b) ==
    [k \in 1..(Len(b) \div 2) |-> b[2 * k - 1] + 256 * b[2 * k]]

----------------------------------------------------------------------------
(* impl Chunk                                                              *)

\* size of the chunk header in bytes
HeaderLen == 24

\* the message id from_data writes into every chunk
StubMessageId == 11

\* variant of encode_chunk_x: the count is left out of a first chunk
encode_chunk_x_nocount(chunk_index, num_chunks) ==
    IF chunk_index = U32(0)
    THEN Add1(Shl1(U32(0)))
    ELSE Shl1(chunk_index)

encode_chunk_x(chunk_index, num_chunks) ==
    IF num_chunks = U32(1)
    THEN U32(3)
    ELSE IF chunk_index = U32(0)
         THEN Add1(Shl1(num_chunks))
         ELSE Shl1(chunk_index)

is_first_chunk(c) == And1(c.chunk_x) = 1

\* get_chunk starts with assert!(self.is_first_chunk())
get_chunk_panics(c) == ~is_first_chunk(c)

get_chunk(c) == Shr1(c.chunk_x)

get_chunk_number_panics(c) == ~is_first_chunk(c) /\ get_chunk_panics(c)

get_chunk_number(c) == IF is_first_chunk(c) THEN U32(1) ELSE get_chunk(c)

from_data(data) ==
    [length         |-> U32(HeaderLen + Len(data)),
     chunk_x        |-> encode_chunk_x(U32(0), U32(1)),
     message_id     |-> U64(StubMessageId),
     message_length |-> U64(Len(data)),
     data           |-> data]

\* the slices data[0..4] .. data[24..] are out of range on a short buffer
from_bytes_panics(b) == Len(b) < HeaderLen

\* variant of from_bytes: the payload starts one byte late
from_bytes_skip(b) ==
    [length         |-> from_le_bytes(SubSeq(b, 1, 4)),
     chunk_x        |-> from_le_bytes(SubSeq(b, 5, 8)),
     message_id     |-> from_le_bytes(SubSeq(b, 9, 16)),
     message_length |-> from_le_bytes(SubSeq(b, 17, 24)),
     data           |-> SubSeq(b, HeaderLen + 2, Len(b))]

from_bytes(b) ==
    [length         |-> from_le_bytes(SubSeq(b, 1, 4)),
     chunk_x        |-> from_le_bytes(SubSeq(b, 5, 8)),
     message_id     |-> from_le_bytes(SubSeq(b, 9, 16)),
     message_length |-> from_le_bytes(SubSeq(b, 17, 24)),
     data           |-> SubSeq(b, HeaderLen + 1, Len(b))]

to_bytes(c) ==
    to_le_bytes(c.length) \o to_le_bytes(c.chunk_x)
        \o to_le_bytes(c.message_id) \o to_le_bytes(c.message_length)
        \o c.data

----------------------------------------------------------------------------
(* State.                                                                  *)

VARIABLES
    buf,          \* Option<Vec<u8>>: the byte buffer in hand
    chunk,        \* Option<Chunk>: the Chunk value in hand
    parsed_from,  \* Option<Vec<u8>>: the buffer `chunk` was parsed from
    written_from, \* Option<Chunk>: the chunk `buf` was written from
    built,        \* the messages framed by from_data, with the caller's id
    number,       \* Option<u32>: the last result of get_chunk_number
    last_op,      \* the last operation applied
    outcome,      \* "ok" or "panic": how the last operation ended
    desc,         \* Option: the last call of encode_chunk_x and its result
    decoded,      \* Option: is_first_chunk / get_chunk of that result
    sent,         \* the calls of split that produced chunks
    inflight,     \* chunks written to the transport and not yet read
    handed,       \* chunks the reader has handed to accept
    table,        \* MessageReassembler: message_id -> ReassemblyEntry
    delivered,    \* the LogicalMessages accept has returned
    result        \* how the last call of split / accept ended

codec_vars == <<buf, chunk, parsed_from, written_from, built, number,
                last_op, outcome>>
desc_vars == <<desc, decoded>>
stream_vars == <<sent, inflight, handed, table, delivered, result>>
vars == <<codec_vars, desc_vars, stream_vars>>

----------------------------------------------------------------------------
(* Inputs.                                                                 *)

\* payload bytes
DataBytes == {0, 171}

RECURSIVE SeqsUpTo(_, _)
SeqsUpTo(S, n) ==
    IF n = 0 THEN {<<>>}
    ELSE LET shorter == SeqsUpTo(S, n - 1)
         IN  shorter \cup {Append(s, x) : s \in {t \in shorter : Len(t) = n - 1}, x \in S}

Payloads == SeqsUpTo(DataBytes, MaxData)

\* raw header words as they may arrive from the transport
LengthWords(d) ==
    {<<(HeaderLen + Len(d)) % 256, 0, 0, 0>>, <<0, 0, 0, 0>>,
     <<255, 255, 255, 255>>}
ChunkXWords == {<<3, 0, 0, 0>>, <<2, 0, 0, 0>>, <<1, 2, 3, 4>>,
                <<254, 255, 255, 255>>}
MessageIdWords == {<<0, 0, 0, 0, 0, 0, 0, 0>>, <<1, 2, 3, 4, 5, 6, 7, 8>>,
                   <<255, 255, 255, 255, 255, 255, 255, 255>>}
MessageLengthWords(d) == {<<Len(d), 0, 0, 0, 0, 0, 0, 0>>,
                          <<8, 7, 6, 5, 4, 3, 2, 1>>}

FullBuffers ==
    UNION {{l \o x \o i \o m \o d :
                l \in LengthWords(d), x \in ChunkXWords,
                i \in MessageIdWords, m \in MessageLengthWords(d)} :
           d \in Payloads}

\* buffers shorter than a header
ShortBuffers ==
    {SubSeq(<<24, 0, 0, 0>> \o <<3, 0, 0, 0>> \o <<1, 2, 3, 4, 5, 6, 7, 8>>
              \o <<0, 0, 0, 0, 0, 0, 0, 0>>, 1, n) : n \in {0, 4, 8, 16, 23}}

InputBuffers == FullBuffers \cup ShortBuffers

\* identifiers the caller generates: unique and non-zero
MsgIds == 1..MaxMsgId

\* u32 arguments of encode_chunk_x: small ones and the top of the range
U32Args == {U32(k) : k \in 0..MaxTotal} \cup {<<0, 32768>>, <<65535, 65535>>}

\* u32 `a < b`
Lt(a, b) == a[2] < b[2] \/ (a[2] = b[2] /\ a[1] < b[1])

----------------------------------------------------------------------------
(* Operations.                                                             *)

Init ==
    /\ buf = <<>>
    /\ chunk = <<>>
    /\ parsed_from = <<>>
    /\ written_from = <<>>
    /\ built = <<>>
    /\ number = <<>>
    /\ last_op = "none"
    /\ outcome = "ok"
    /\ desc = <<>>
    /\ decoded = <<>>
    /\ sent = <<>>
    /\ inflight = {}
    /\ handed = {}
    /\ table = {}
    /\ delivered = <<>>
    /\ result = "idle"

\* the transport hands over a byte buffer (read_exact)
Read(b) ==
    /\ last_op = "none"
    /\ buf' = <<b>>
    /\ last_op' = "read"
    /\ UNCHANGED <<chunk, parsed_from, written_from, built, number, outcome>>
    /\ UNCHANGED <<desc_vars, stream_vars>>

\* Chunk::from_data(data), called for the message the caller numbered id
FromData(id, data) ==
    /\ last_op \in {"none", "from_data"}
    /\ Len(built) < MaxMessages
    /\ \A k \in 1..Len(built) : built[k].id # id
    /\ chunk' = <<from_data(data)>>
    /\ built' = Append(built, [id |-> id, chunk |-> from_data(data)])
    /\ last_op' = "from_data"
    /\ outcome' = "ok"
    /\ UNCHANGED <<buf, parsed_from, written_from, number>>
    /\ UNCHANGED <<desc_vars, stream_vars>>

\* Chunk::from_bytes(&buf)
FromBytes ==
    /\ last_op \in {"read", "to_bytes"}
    /\ buf # <<>>
    /\ IF from_bytes_panics(buf[1])
       THEN /\ outcome' = "panic"
            /\ chunk' = <<>>
            /\ parsed_from' = <<>>
       ELSE /\ outcome' = "ok"
            /\ chunk' = <<from_bytes(buf[1])>>
            /\ parsed_from' = buf
    /\ last_op' = "from_bytes"
    /\ UNCHANGED <<buf, written_from, built, number>>
    /\ UNCHANGED <<desc_vars, stream_vars>>

\* chunk.to_bytes()
ToBytes ==
    /\ last_op \in {"from_data", "from_bytes"}
    /\ chunk # <<>>
    /\ buf' = <<to_bytes(chunk[1])>>
    /\ written_from' = chunk
    /\ last_op' = "to_bytes"
    /\ outcome' = "ok"
    /\ UNCHANGED <<chunk, parsed_from, built, number>>
    /\ UNCHANGED <<desc_vars, stream_vars>>

\* chunk.get_chunk_number()
GetChunkNumber ==
    /\ last_op \in {"from_data", "from_bytes"}
    /\ chunk # <<>>
    /\ IF get_chunk_number_panics(chunk[1])
       THEN /\ outcome' = "panic"
            /\ number' = <<>>
       ELSE /\ outcome' = "ok"
            /\ number' = <<get_chunk_number(chunk[1])>>
    /\ last_op' = "get_chunk_number"
    /\ UNCHANGED <<buf, chunk, parsed_from, written_from, built>>
    /\ UNCHANGED <<desc_vars, stream_vars>>

Next ==
    \/ \E b \in InputBuffers : Read(b)
    \/ \E id \in MsgIds, data \in Payloads : FromData(id, data)
    \/ FromBytes
    \/ ToBytes
    \/ GetChunkNumber

Spec == Init /\ [][Next]_vars

\* Chunk::encode_chunk_x(chunk_index, num_chunks)
EncodeChunkX(chunk_index, num_chunks) ==
    /\ desc' = <<[chunk_index |-> chunk_index, num_chunks |-> num_chunks,
                  chunk_x |-> encode_chunk_x(chunk_index, num_chunks)]>>
    /\ decoded' = <<>>
    /\ UNCHANGED <<codec_vars, stream_vars>>

\* is_first_chunk() and get_chunk() of a chunk carrying that descriptor
DecodeChunkX ==
    /\ desc # <<>>
    /\ decoded = <<>>
    /\ LET c == [from_data(<<>>) EXCEPT !.chunk_x = desc[1].chunk_x]
       IN  decoded' = <<[is_first |-> is_first_chunk(c),
                         panicked |-> get_chunk_panics(c),
                         chunk |-> IF get_chunk_panics(c) THEN <<>>
                                   ELSE <<get_chunk(c)>>]>>
    /\ UNCHANGED desc
    /\ UNCHANGED <<codec_vars, stream_vars>>

NextDescriptor ==
    \/ \E i \in U32Args, n \in U32Args : EncodeChunkX(i, n)
    \/ DecodeChunkX

SpecDescriptor == Init /\ [][NextDescriptor]_vars

----------------------------------------------------------------------------
(* MessageSplitter and MessageReassembler.  The source has neither: they   *)
(* are modelled from sections 4.3 and 4.4 of the specification, on top of  *)
(* encode_chunk_x, is_first_chunk, get_chunk and get_chunk_number above.   *)

\* split fails with InvalidInput
split_invalid(message_id, max_chunk_payload) ==
    message_id = 0 \/ max_chunk_payload = 0

\* split(message_id, message_bytes, max_chunk_payload): the ordered chunks
split(message_id, message_bytes, max_chunk_payload) ==
    LET len == Len(message_bytes)
        total_chunks ==
            IF len = 0 THEN 1
            ELSE (len + max_chunk_payload - 1) \div max_chunk_payload
        slice(i) ==
            SubSeq(message_bytes, i * max_chunk_payload + 1,
                   IF (i + 1) * max_chunk_payload < len
                   THEN (i + 1) * max_chunk_payload ELSE len)
    IN  [k \in 1..total_chunks |->
            [length         |-> U32(HeaderLen + Len(slice(k - 1))),
             chunk_x        |-> encode_chunk_x(U32(k - 1), U32(total_chunks)),
             message_id     |-> U64(message_id),
             message_length |-> U64(len),
             data           |-> slice(k - 1)]]

\* the concatenation of the stored payloads of indices 1..n
RECURSIVE Concatenated(_, _)
Concatenated(parts, n) ==
    IF n = 0 THEN <<>>
    ELSE Concatenated(parts, n - 1)
            \o (CHOOSE p \in parts : p.index = U32(n)).data

\* accept(chunk) on the table tbl: how it ends, the table it leaves and
\* the LogicalMessage it returns
accept(tbl, c) ==
    LET old == {e \in tbl : e.message_id = c.message_id}
        rest == tbl \ old
        known == IF old = {} THEN <<>> ELSE (CHOOSE e \in old : TRUE).total
        stored == IF old = {} THEN {} ELSE (CHOOSE e \in old : TRUE).parts
        total == IF is_first_chunk(c) THEN <<get_chunk(c)>> ELSE known
        index == get_chunk_number(c)
        same == {p \in stored : p.index = index}
        parts == (stored \ same) \cup {[index |-> index, data |-> c.data]}
        complete ==
            /\ total # <<>>
            /\ \A i \in 1..ToNat(total[1]) : \E p \in parts : p.index = U32(i)
        payload == Concatenated(parts, ToNat(total[1]))
        failed == [outcome |-> "ProtocolError", table |-> rest, message |-> <<>>]
    IN  IF c.message_id = U64(0)
        THEN [outcome |-> "ProtocolError", table |-> tbl, message |-> <<>>]
        ELSE IF is_first_chunk(c) /\ known # <<>> /\ known # total
        THEN failed
        ELSE IF get_chunk_number_panics(c)
        THEN [outcome |-> "panic", table |-> tbl, message |-> <<>>]
        ELSE IF \E p \in same : Len(p.data) # Len(c.data)
        THEN failed
        ELSE IF total # <<>> /\ \E p \in parts : Lt(total[1], p.index)
        THEN failed
        ELSE IF complete
        THEN IF U64(Len(payload)) # c.message_length
             THEN failed
             ELSE [outcome |-> "delivered", table |-> rest,
                   message |-> <<[message_id |-> c.message_id,
                                  total_length |-> c.message_length,
                                  payload |-> payload]>>]
        ELSE [outcome |-> "waiting",
              table |-> rest \cup {[message_id |-> c.message_id,
                                    total |-> total, parts |-> parts]},
              message |-> <<>>]

\* logical messages handed to split
Messages == SeqsUpTo(DataBytes, MaxPayload)

\* the chunks split produced for the k-th message sent
ChunksOf(k) ==
    LET s == split(sent[k].id, sent[k].bytes, sent[k].max)
    IN  {s[i] : i \in 1..Len(s)}

\* the caller splits a message and writes its chunks to the transport
Split(message_id, message_bytes, max_chunk_payload) ==
    /\ result # "panic"
    /\ Len(sent) < MaxMessages
    /\ \A k \in 1..Len(sent) : sent[k].id # message_id
    /\ IF split_invalid(message_id, max_chunk_payload)
       THEN /\ result' = "InvalidInput"
            /\ UNCHANGED <<sent, inflight>>
       ELSE /\ result' = "split"
            /\ sent' = Append(sent, [id |-> message_id, bytes |-> message_bytes,
                                     max |-> max_chunk_payload])
            /\ LET s == split(message_id, message_bytes, max_chunk_payload)
               IN  inflight' = inflight \cup {s[i] : i \in 1..Len(s)}
    /\ UNCHANGED <<handed, table, delivered>>
    /\ UNCHANGED <<codec_vars, desc_vars>>

\* the reader takes any chunk off the transport and hands it to accept; a
\* panic unwinds the reader
Accept(c) ==
    /\ result # "panic"
    /\ c \in inflight
    /\ inflight' = inflight \ {c}
    /\ handed' = handed \cup {c}
    /\ LET r == accept(table, c)
       IN  /\ table' = r.table
           /\ delivered' = delivered \o r.message
           /\ result' = r.outcome
    /\ UNCHANGED sent
    /\ UNCHANGED <<codec_vars, desc_vars>>

NextStream ==
    \/ \E id \in 0..MaxMsgId, m \in Messages, max \in 0..MaxChunkPayload :
          Split(id, m, max)
    \/ \E c \in inflight : Accept(c)

SpecStream == Init /\ [][NextStream]_vars

----------------------------------------------------------------------------
(* Properties of the chunk codec, checked under Spec.                      *)

\* C3: every Chunk value, whether built by from_data or parsed by
\* from_bytes, has length = 24 + len(data); a buffer whose declared length
\* disagrees is refused instead of becoming a Chunk.
C3_LengthMatchesData ==
    chunk # <<>> =>
        chunk[1].length = U32(HeaderLen + Len(chunk[1].data))

\* C4: decoding a buffer of fewer than 24 bytes ends in a FramingError
\* returned to the caller, and no Chunk is produced.
C4_ShortBufferFramingError ==
    (last_op = "from_bytes" /\ Len(buf[1]) < HeaderLen) =>
        (outcome = "FramingError" /\ chunk = <<>>)

\* C5: decoding the bytes written from a chunk gives a chunk with the same
\* data, whatever the header fields and also for the empty payload.
C5_DataRoundTrip ==
    (last_op = "from_bytes" /\ written_from # <<>>) =>
        /\ outcome = "ok"
        /\ chunk # <<>>
        /\ chunk[1].data = written_from[1].data

\* a chunk with a non-empty payload and a length field that is not
\* 24 + len(data) went through to_bytes and from_bytes
C5_Witness ==
    /\ last_op = "from_bytes"
    /\ written_from # <<>>
    /\ Len(written_from[1].data) >= 1
    /\ written_from[1].length = <<65535, 65535>>
    /\ chunk # <<>>

\* C6: a chunk built on the encode path carries the non-zero message id the
\* caller supplied, so the chunks of two messages carry different ids.
C6_CallerMessageId ==
    \A j, k \in 1..Len(built) :
        /\ built[k].chunk.message_id = U64(built[k].id)
        /\ built[k].chunk.message_id # U64(0)
        /\ j # k => built[j].chunk.message_id # built[k].chunk.message_id

\* C8: the descriptor of a chunk built by from_data decodes to
\* (is_first = true, number = 1) for every payload size.
C8_SingleChunkDescriptor ==
    \A k \in 1..Len(built) :
        /\ is_first_chunk(built[k].chunk)
        /\ ~get_chunk_panics(built[k].chunk)
        /\ get_chunk(built[k].chunk) = U32(1)

\* from_data has built a chunk from the empty payload and one from a
\* payload of the largest size
C8_Witness ==
    /\ Len(built) = 2
    /\ built[1].chunk.data = <<>>
    /\ Len(built[2].chunk.data) = MaxData

\* C9: get_chunk_number completes without a failure on every chunk and
\* returns 1 when the low bit of chunk_x is set, chunk_x >> 1 otherwise.
C9_GetChunkNumberTotal ==
    (last_op = "get_chunk_number") =>
        /\ outcome = "ok"
        /\ number = <<IF And1(chunk[1].chunk_x) = 1 THEN U32(1)
                      ELSE Shr1(chunk[1].chunk_x)>>

\* C10: to_bytes(from_bytes(b)) = b for every buffer of at least 24 bytes,
\* from_bytes(to_bytes(c)) has the fields of c, and the written buffer holds
\* the four header integers little-endian at offsets 0, 4, 8 and 16.
C10_CodecRoundTrip ==
    /\ (last_op = "to_bytes" /\ parsed_from # <<>>) => buf = parsed_from
    /\ (last_op = "from_bytes" /\ written_from # <<>>) => chunk = written_from
    /\ (last_op = "to_bytes") =>
          LET b == buf[1]
              c == written_from[1]
              Limb(k) == b[k] + 256 * b[k + 1]
          IN  /\ Len(b) = HeaderLen + Len(c.data)
              /\ c.length = <<Limb(1), Limb(3)>>
              /\ c.chunk_x = <<Limb(5), Limb(7)>>
              /\ c.message_id = <<Limb(9), Limb(11), Limb(13), Limb(15)>>
              /\ c.message_length = <<Limb(17), Limb(19), Limb(21), Limb(23)>>
              /\ SubSeq(b, HeaderLen + 1, Len(b)) = c.data

\* a received buffer whose header words are neither zero nor symmetric was
\* parsed and written back
C10_Witness ==
    /\ last_op = "to_bytes"
    /\ parsed_from # <<>>
    /\ SubSeq(parsed_from[1], 5, 8) = <<1, 2, 3, 4>>
    /\ SubSeq(parsed_from[1], 9, 16) = <<1, 2, 3, 4, 5, 6, 7, 8>>
    /\ SubSeq(parsed_from[1], 1, 4) = <<255, 255, 255, 255>>
    /\ Len(parsed_from[1]) > HeaderLen

----------------------------------------------------------------------------
(* Property of the chunk descriptor, checked under SpecDescriptor.         *)

\* C2: for 0 <= i < n, is_first_chunk and get_chunk applied to
\* encode_chunk_x(i, n) give (i = 0, n if i = 0 else i).
C2_DescriptorRoundTrip ==
    (decoded # <<>> /\ Lt(desc[1].chunk_index, desc[1].num_chunks)) =>
        /\ ~decoded[1].panicked
        /\ decoded[1].is_first = (desc[1].chunk_index = U32(0))
        /\ decoded[1].chunk =
              <<IF desc[1].chunk_index = U32(0) THEN desc[1].num_chunks
                ELSE desc[1].chunk_index>>

----------------------------------------------------------------------------
(* Properties of splitting and reassembly, checked under SpecStream.       *)

\* the 1-based index of a chunk: 1 for a first chunk, else the number
IndexOf(c) == IF And1(c.chunk_x) = 1 THEN U32(1) ELSE Shr1(c.chunk_x)

\* the messages delivered for the k-th message sent
DeliveredFor(k) ==
    {j \in 1..Len(delivered) : delivered[j].message_id = U64(sent[k].id)}

\* C1: once every chunk of a split message has been handed to accept, in
\* any order and interleaved with other messages, exactly one message has
\* been reassembled for it and its bytes are the payload.
C1_SplitReassemble ==
    \A k \in 1..Len(sent) :
        ChunksOf(k) \subseteq handed =>
            /\ Cardinality(DeliveredFor(k)) = 1
            /\ \A j \in DeliveredFor(k) : delivered[j].payload = sent[k].bytes

\* C7: a message is produced only after a first chunk declaring N and
\* chunks of every index 1..N were accepted for its id, and this is reached
\* by every message split into N >= 2 chunks.
C7_CompleteBeforeDelivery ==
    /\ \A j \in 1..Len(delivered) :
          \E f \in handed :
              /\ f.message_id = delivered[j].message_id
              /\ And1(f.chunk_x) = 1
              /\ \A i \in 1..ToNat(Shr1(f.chunk_x)) :
                    \E c \in handed : /\ c.message_id = f.message_id
                                      /\ IndexOf(c) = U32(i)
    /\ \A k \in 1..Len(sent) :
          (Cardinality(ChunksOf(k)) >= 2 /\ ChunksOf(k) \subseteq handed) =>
              DeliveredFor(k) # {}

====
